---- MODULE Spec2Model ----
(***************************************************************************)
(* Model of the classroom-observation tool:                                *)
(*   src/src/services/gemini.service.ts  (GeminiService: credential store  *)
(*                                        and fetchWithRetry)              *)
(*   src/src/app.component.ts            (AppComponent: session, mode      *)
(*                                        timers, counters, engagement,    *)
(*                                        log)                             *)
(* Time is in milliseconds, as Date.now() and setTimeout use it.           *)
(***************************************************************************)
EXTENDS Integers, Sequences, FiniteSets, TLC

(* ------------------------------------------------------------------ *)
(* Values                                                             *)
(* ------------------------------------------------------------------ *)

\* JavaScript null / undefined for string-valued slots.
Null == "<null>"
Undefined == "<undefined>"
\* null for number-valued slots (timestamps are positive).
NoTime == 0 - 1

\* gemini.service.ts:10
API_KEY_EXPIRATION_MS == 2 * 60 * 60 * 1000
\* fetchWithRetry's default parameter, gemini.service.ts:91
maxRetries == 3

\* Bounds of the model.
MaxNow == 7207000
MaxDrift == 6000
MaxLog == 2
MaxTicks == 3
MaxSessions == 2
NumModes == 2
NumActions == 1
MaxIdle == 610000
MaxAppends == 150

\* Steps by which the wall clock advances between two events.
TimeSteps == {2000, API_KEY_EXPIRATION_MS}
\* The steps of the runs that watch the idle reminder: one second, and one
\* second less than the reminder's five minutes.
IdleStep == 5 * 60 * 1000 - 1000
ReminderSteps == {1000, IdleStep}

\* Keys a user may save (saveApiKey passes the text typed in the settings).
Keys == {"k1", "k2"}
\* What evaluating process.env.API_KEY gives in the running build: a
\* ReferenceError (no global `process`), undefined (process.env without
\* API_KEY), or a populated key.
ReferenceError == "<ReferenceError>"
EnvOutcomes == {ReferenceError, Undefined, "envkey"}

\* The localStorage item 'gemini_api_key': absent, or {value, timestamp}.
NoItem == [value |-> Null, timestamp |-> NoTime]

\* Responses of the endpoint, as fetchWithRetry reads them: a rejected fetch
\* (network exception), or a response with a status and a JSON body of which
\* the code reads candidates[0].content.parts[0].text and error.message.
NetworkException == [status |-> 0, text |-> Undefined, message |-> Undefined]
Responses ==
    {NetworkException}
      \cup [status : {200}, text : {Undefined, "T"}, message : {Undefined}]
      \cup [status : {400, 500}, text : {Undefined}, message : {Undefined, "M"}]

Methods == {"polishText", "generateReport"}

\* Errors thrown inside fetchWithRetry / getApiKey.
MissingCredential == [type |-> "MissingCredential", detail |-> ""]
ServerError(status) == [type |-> "ServerError", detail |-> ToString(status)]
ApiError(detail) == [type |-> "ApiError", detail |-> detail]
ParseFailure == [type |-> "ParseFailure", detail |-> ""]
FetchFailed == [type |-> "FetchFailed", detail |-> ""]
NoError == [type |-> "", detail |-> ""]

StatusText(status) == "status " \o ToString(status)

VARIABLES
    now,            \* Date.now()
    processEnv,     \* outcome of evaluating process.env.API_KEY
    apiKey,         \* GeminiService.apiKey
    storedKey,      \* localStorage item 'gemini_api_key'
    credLog,        \* what the credential was last set to and when (set, at),
                    \* and what the last read of it yielded (via, got) if
                    \* nothing has changed the answer since
    call,           \* the fetchWithRetry call in progress: its locals (apiKey,
                    \* attempt), its position (pc), its outcome (result,
                    \* error) and what it did: fetches (network attempts),
                    \* responses received, waits (delays passed to
                    \* setTimeout), waited (time each wait really took),
                    \* absentAtStart (no credential was resolvable),
                    \* resolutions (calls of getApiKey), keysUsed (the key
                    \* of each attempt's request), pending (requests not
                    \* yet answered), caller (the component handler
                    \* awaiting it) and afterStarts (the sessions started
                    \* when it was entered)
    lastOp,         \* the component handler the last step ran, with its
                    \* argument; NoOp after a step that ran none
    \* AppComponent's signals
    sessionActive,
    sessionStartTime,
    modeActive,             \* teachingModes[m].active
    elapsedTime,            \* teachingModes[m].elapsedTime
    count,                  \* teachingActions[a].count
    logs,
    appended,               \* every entry passed to addLog since the ledger was
                            \* last cleared, oldest first
    qualitativeNote,
    engagementLevel,
    engagementValue,
    lastEngagementLogTime,
    needsEngagementReminder,
    isSummaryModalVisible,
    aiReportContent,
    isLoadingAI,
    isPolishingNote,
    isApiKeyMissingPromptVisible,
    \* the setInterval handles that are live
    modeTimers,             \* intervals of the mode-timer effect
    reminderTimers,         \* intervals of the engagement-reminder effect
    tickHist                \* for each firing of a mode-timer interval since the
                            \* last session start: the modes active at that firing

svcVars == <<processEnv, apiKey, storedKey, credLog, call>>
modeVars == <<modeActive, elapsedTime>>
engVars == <<engagementLevel, engagementValue, lastEngagementLogTime,
             needsEngagementReminder>>
timerVars == <<modeTimers, reminderTimers>>
aiVars == <<isLoadingAI, isPolishingNote, isApiKeyMissingPromptVisible>>
cmpVars == <<sessionActive, sessionStartTime, modeActive, elapsedTime, count, logs,
             appended,
             qualitativeNote, engagementLevel, engagementValue,
             lastEngagementLogTime, needsEngagementReminder,
             isSummaryModalVisible, aiReportContent, aiVars, modeTimers,
             reminderTimers, tickHist>>
vars == <<now, processEnv, apiKey, storedKey, credLog, call, lastOp, cmpVars>>

Op(name, arg) == [op |-> name, arg |-> arg]
NoOp == Op("", <<>>)

IdleCall ==
    [pc |-> "idle", method |-> "", apiKey |-> Null, attempt |-> 0, fetches |-> 0,
     waits |-> <<>>, waited |-> <<>>, responses |-> <<>>, caughtAt |-> NoTime,
     result |-> Undefined, error |-> NoError, absentAtStart |-> FALSE,
     resolutions |-> 0, keysUsed |-> <<>>, pending |-> 0, caller |-> "",
     afterStarts |-> 0]

\* getApiKey's throw, as the outcome of a read of the credential.
Thrown == "throws"
NeverSet == [set |-> Null, at |-> NoTime, via |-> "", got |-> Null]
Read(log, how, value) == [log EXCEPT !.via = how, !.got = value]
Unread(log) == Read(log, "", Null)

(* ------------------------------------------------------------------ *)
(* GeminiService: the credential                                      *)
(* ------------------------------------------------------------------ *)

\* JavaScript truthiness of a string-or-null value.
Truthy(s) == s # Null /\ s # Undefined /\ s # ""

\* Variant: a stored credential still valid at exactly the expiration age.
loadApiKeyInclusive(k, item, t) ==
    IF item # NoItem
      THEN IF t - item.timestamp <= API_KEY_EXPIRATION_MS
             THEN [apiKey |-> item.value, storedKey |-> item]
             ELSE [apiKey |-> Null, storedKey |-> NoItem]
      ELSE [apiKey |-> k, storedKey |-> item]

\* loadApiKey as a function of (apiKey, storedKey, now): the pair it leaves.
loadApiKey(k, item, t) ==
    IF item # NoItem
      THEN IF t - item.timestamp < API_KEY_EXPIRATION_MS
             THEN [apiKey |-> item.value, storedKey |-> item]
             ELSE [apiKey |-> Null, storedKey |-> NoItem]      \* clearApiKey()
      ELSE [apiKey |-> k, storedKey |-> item]

\* getApiKey: the value returned, or ReferenceError's catch: the throw.
getApiKey(k, item, t) ==
    LET loaded == loadApiKey(k, item, t) IN
    IF ~Truthy(loaded.apiKey)
      THEN IF processEnv = ReferenceError
             THEN [threw |-> TRUE, key |-> Null]
             ELSE [threw |-> FALSE, key |-> processEnv]
      ELSE [threw |-> FALSE, key |-> loaded.apiKey]

setApiKey(key) ==
    /\ storedKey' = [value |-> key, timestamp |-> now]
    /\ apiKey' = key
    /\ credLog' = [NeverSet EXCEPT !.set = key, !.at = now]
    /\ lastOp' = NoOp
    /\ UNCHANGED <<now, processEnv, call, cmpVars>>

clearApiKey ==
    /\ apiKey' = Null
    /\ storedKey' = NoItem
    /\ credLog' = NeverSet
    /\ lastOp' = NoOp
    /\ UNCHANGED <<now, processEnv, call, cmpVars>>

hasApiKey ==
    LET loaded == loadApiKey(apiKey, storedKey, now) IN
    /\ apiKey' = loaded.apiKey
    /\ storedKey' = loaded.storedKey
    /\ credLog' = Read(credLog, "hasApiKey", ToString(Truthy(loaded.apiKey)))
    /\ lastOp' = NoOp
    /\ UNCHANGED <<now, processEnv, call, cmpVars>>

(* ------------------------------------------------------------------ *)
(* GeminiService: fetchWithRetry                                      *)
(* ------------------------------------------------------------------ *)

InFlight == call.pc \in {"fetching", "backoff"}

\* The exponential backoff of line 127.
RECURSIVE Pow2(_)
Pow2(n) == IF n = 0 THEN 1 ELSE 2 * Pow2(n - 1)
\* Variant: the delay computed from the attempt index before its increment.
BackoffDelayFromZero(attempt) == Pow2(attempt - 1) * 1000
BackoffDelay(attempt) == Pow2(attempt) * 1000

\* polishText / generateReport: build the body and enter fetchWithRetry, which
\* runs synchronously up to its first await: getApiKey, then the first fetch.
Entered(method) ==
    LET loaded == loadApiKey(apiKey, storedKey, now)
        got == getApiKey(apiKey, storedKey, now)
        absent == ~Truthy(loaded.apiKey) /\ ~Truthy(processEnv)
    IN
    IF got.threw
      THEN [IdleCall EXCEPT !.pc = "threw", !.method = method,
                            !.error = MissingCredential,
                            !.absentAtStart = absent, !.resolutions = 1]
      ELSE [IdleCall EXCEPT !.pc = "fetching", !.method = method,
                            !.apiKey = got.key, !.fetches = 1,
                            !.absentAtStart = absent, !.resolutions = 1,
                            !.keysUsed = <<got.key>>, !.pending = 1]

fetchWithRetry(method) ==
    LET loaded == loadApiKey(apiKey, storedKey, now)
        got == getApiKey(apiKey, storedKey, now)
    IN
    /\ ~InFlight
    /\ apiKey' = loaded.apiKey
    /\ storedKey' = loaded.storedKey
    /\ credLog' = Read(credLog, "getApiKey", IF got.threw THEN Thrown ELSE got.key)
    /\ call' = Entered(method)
    /\ lastOp' = NoOp
    /\ UNCHANGED <<now, processEnv, cmpVars>>

polishText == fetchWithRetry("polishText")
generateReport == fetchWithRetry("generateReport")

\* Variant: the text field returned without the `text === undefined` check.
AttemptOutcomeUnchecked(resp, attempt) ==
    IF resp = NetworkException
      THEN [threw |-> TRUE, error |-> FetchFailed, text |-> Undefined]
    ELSE IF resp.status # 200
      THEN IF resp.status >= 500 /\ attempt < maxRetries - 1
             THEN [threw |-> TRUE, error |-> ServerError(resp.status), text |-> Undefined]
             ELSE [threw |-> TRUE,
                   error |-> ApiError(IF Truthy(resp.message)
                                        THEN resp.message
                                        ELSE StatusText(resp.status)),
                   text |-> Undefined]
    ELSE [threw |-> FALSE, error |-> NoError, text |-> resp.text]

\* What one attempt's try block does with the response: return the text, or
\* throw (lines 96-119).
AttemptOutcome(resp, attempt) ==
    IF resp = NetworkException
      THEN [threw |-> TRUE, error |-> FetchFailed, text |-> Undefined]
    ELSE IF resp.status # 200
      THEN IF resp.status >= 500 /\ attempt < maxRetries - 1
             THEN [threw |-> TRUE, error |-> ServerError(resp.status), text |-> Undefined]
             ELSE [threw |-> TRUE,
                   error |-> ApiError(IF Truthy(resp.message)
                                        THEN resp.message
                                        ELSE StatusText(resp.status)),
                   text |-> Undefined]
    ELSE IF resp.text = Undefined
      THEN [threw |-> TRUE, error |-> ParseFailure, text |-> Undefined]
    ELSE [threw |-> FALSE, error |-> NoError, text |-> resp.text]

\* Variant: the catch block without the give-up test of line 123.
CatchBlockNoLimit(c, err) ==
    LET attempt == c.attempt + 1 IN
    [c EXCEPT !.pc = "backoff", !.attempt = attempt,
              !.waits = Append(c.waits, BackoffDelay(attempt)),
              !.caughtAt = now]

\* The catch block (lines 121-129) after a throw of `err` at `call.attempt`.
CatchBlock(c, err) ==
    LET attempt == c.attempt + 1 IN
    IF attempt >= maxRetries
      THEN [c EXCEPT !.pc = "threw", !.attempt = attempt, !.error = err]
      ELSE [c EXCEPT !.pc = "backoff", !.attempt = attempt,
                     !.waits = Append(c.waits, BackoffDelay(attempt)),
                     !.caughtAt = now]

\* The fallback text generateAiReport's catch block shows.
ReportFailed == "### report failed"

awaiterVars == <<aiReportContent, qualitativeNote, isLoadingAI, isPolishingNote>>
sessionVars == <<sessionActive, sessionStartTime, modeActive, elapsedTime, count,
                 logs, appended, engVars, isSummaryModalVisible,
                 isApiKeyMissingPromptVisible, timerVars, tickHist>>

\* Variant: the indicators reset after the try block instead of in `finally`.
ResumedWithoutFinally(c) ==
    IF c.pc \notin {"returned", "threw"} \/ c.caller = ""
      THEN UNCHANGED awaiterVars
    ELSE IF c.caller = "generateAiReport"
      THEN /\ aiReportContent' = IF c.pc = "returned" THEN c.result ELSE ReportFailed
           /\ isLoadingAI' = (c.pc = "threw")
           /\ UNCHANGED <<qualitativeNote, isPolishingNote>>
    ELSE /\ qualitativeNote' = IF c.pc = "returned" THEN c.result ELSE qualitativeNote
         /\ isPolishingNote' = (c.pc = "threw")
         /\ UNCHANGED <<aiReportContent, isLoadingAI>>

\* The component handler awaiting the call resumes once it has ended as `c`:
\* the rest of the try block or the catch block, then `finally`
\* (generateAiReport lines 284-293, polishNote lines 257-265).
Resumed(c) ==
    IF c.pc \notin {"returned", "threw"} \/ c.caller = ""
      THEN UNCHANGED awaiterVars
    ELSE IF c.caller = "generateAiReport"
      THEN /\ aiReportContent' = IF c.pc = "returned" THEN c.result ELSE ReportFailed
           /\ isLoadingAI' = FALSE
           /\ UNCHANGED <<qualitativeNote, isPolishingNote>>
    ELSE /\ qualitativeNote' = IF c.pc = "returned" THEN c.result ELSE qualitativeNote
         /\ isPolishingNote' = FALSE
         /\ UNCHANGED <<aiReportContent, isLoadingAI>>

\* The awaited fetch settles with `resp`; a call that ends resumes its awaiter.
fetchSettles(resp) ==
    LET out == AttemptOutcome(resp, call.attempt)
        seen == [call EXCEPT !.responses = Append(call.responses, resp),
                             !.pending = call.pending - 1]
    IN
    /\ call.pc = "fetching"
    /\ call' = IF out.threw
                 THEN CatchBlock(seen, out.error)
                 ELSE [seen EXCEPT !.pc = "returned", !.result = out.text]
    /\ Resumed(call')
    /\ lastOp' = NoOp
    /\ UNCHANGED <<now, processEnv, apiKey, storedKey, credLog, sessionVars>>

\* Variant: the key resolved anew by getApiKey before every attempt.
backoffElapsedResolvingAnew ==
    LET got == getApiKey(apiKey, storedKey, now)
        key == IF got.threw THEN Null ELSE got.key
    IN
    /\ call.pc = "backoff"
    /\ now >= call.caughtAt + call.waits[Len(call.waits)]
    /\ call.attempt < maxRetries
    /\ call' = [call EXCEPT !.pc = "fetching", !.fetches = call.fetches + 1,
                            !.waited = Append(call.waited, now - call.caughtAt),
                            !.apiKey = key,
                            !.resolutions = call.resolutions + 1,
                            !.keysUsed = Append(call.keysUsed, key),
                            !.pending = call.pending + 1]
    /\ lastOp' = NoOp
    /\ UNCHANGED <<now, processEnv, apiKey, storedKey, credLog, cmpVars>>

\* The backoff timeout fires: the while loop goes round and fetches again.
backoffElapsed ==
    /\ call.pc = "backoff"
    /\ now >= call.caughtAt + call.waits[Len(call.waits)]
    /\ call.attempt < maxRetries
    /\ call' = [call EXCEPT !.pc = "fetching", !.fetches = call.fetches + 1,
                            !.waited = Append(call.waited, now - call.caughtAt),
                            !.keysUsed = Append(call.keysUsed, call.apiKey),
                            !.pending = call.pending + 1]
    /\ lastOp' = NoOp
    /\ UNCHANGED <<now, processEnv, apiKey, storedKey, credLog, cmpVars>>

(* ------------------------------------------------------------------ *)
(* Time                                                               *)
(* ------------------------------------------------------------------ *)

\* The wall clock moves on by d.
advanceTime(d) ==
    /\ now + d <= MaxNow
    /\ now' = now + d
    /\ credLog' = Unread(credLog)
    /\ lastOp' = NoOp
    /\ UNCHANGED <<processEnv, apiKey, storedKey, call, cmpVars>>

(* ------------------------------------------------------------------ *)
(* AppComponent: data                                                 *)
(* ------------------------------------------------------------------ *)

\* The ids of teachingModes and teachingActions, in the order of the source;
\* the model runs the first NumModes and NumActions of them.
ModeIds == <<"lecture", "group-discussion", "practice", "digital-tool">>
ActionIds == <<"praise", "correction", "open-question", "closed-question", "patrol">>
Modes == {ModeIds[i] : i \in 1..NumModes}
Actions == {ActionIds[i] : i \in 1..NumActions}

\* Texts the note field can hold: empty, blank, a note.
Notes == {"", " ", "note"}
\* String.prototype.trim on those texts.
Trim(n) == IF n = " " THEN "" ELSE n

\* The value of the range input, a decimal string (a sequence of digit
\* characters), and parseInt(value, 10) of it.
Digits == <<"0", "1", "2", "3", "4", "5", "6", "7", "8", "9">>
RECURSIVE ToDecimal(_)
ToDecimal(v) ==
    IF v < 10 THEN <<Digits[v + 1]>>
              ELSE Append(ToDecimal(v \div 10), Digits[(v % 10) + 1])
DigitValue(c) == CHOOSE d \in 0..9 : Digits[d + 1] = c
RECURSIVE ParseDigits(_, _)
ParseDigits(str, acc) ==
    IF str = <<>> THEN acc
                  ELSE ParseDigits(Tail(str), 10 * acc + DigitValue(Head(str)))
parseInt(str) == ParseDigits(str, 0)

\* The values the slider is moved to in the session runs, and in the runs
\* that cover the whole scale.
SliderStops == {33, 34, 67}
SliderScale == 0..100

LevelName(level) ==
    IF level = "high" THEN "H" ELSE IF level = "medium" THEN "M" ELSE "L"

\* addLog (line 172): prepend, keep the first 100.
Min(a, b) == IF a < b THEN a ELSE b
LogEntry(message, type) == [timestamp |-> now, message |-> message, type |-> type]
\* Variant: the cut taken from the other end (slice(-100)).
addLogKeepsOldest(current, message, type) ==
    LET all == <<LogEntry(message, type)>> \o current
    IN SubSeq(all, Len(all) - Min(Len(all), 100) + 1, Len(all))
addLog(current, message, type) ==
    LET all == <<LogEntry(message, type)>> \o current
    IN SubSeq(all, 1, Min(Len(all), 100))

\* A handler's call of addLog, and what it adds to the record of appends.
Logged(message, type) ==
    /\ logs' = addLog(logs, message, type)
    /\ appended' = Append(appended, LogEntry(message, type))
\* logs.set([]) followed by addLog.
LoggedAfresh(message, type) ==
    /\ logs' = addLog(<<>>, message, type)
    /\ appended' = <<LogEntry(message, type)>>

(* ------------------------------------------------------------------ *)
(* AppComponent: handlers                                             *)
(* ------------------------------------------------------------------ *)

\* Variant: a start that does not record sessionStartTime.
toggleSessionNoStartTime ==
    /\ IF sessionActive
         THEN /\ sessionActive' = FALSE
              /\ Logged("session-end", "session")
              /\ isSummaryModalVisible' = TRUE
              /\ needsEngagementReminder' = FALSE
              /\ UNCHANGED <<sessionStartTime, modeActive, elapsedTime, count,
                             qualitativeNote, engagementLevel, engagementValue,
                             lastEngagementLogTime, aiReportContent, modeTimers,
                             reminderTimers, tickHist>>
         ELSE /\ modeActive' = [m \in Modes |-> FALSE]
              /\ elapsedTime' = [m \in Modes |-> 0]
              /\ count' = [a \in Actions |-> 0]
              /\ qualitativeNote' = ""
              /\ aiReportContent' = ""
              /\ engagementValue' = 50
              /\ lastEngagementLogTime' = NoTime
              /\ needsEngagementReminder' = FALSE
              /\ sessionActive' = TRUE
              /\ LoggedAfresh("session-start", "session")
              /\ modeTimers' = modeTimers + 1
              /\ reminderTimers' = reminderTimers + 1
              /\ tickHist' = <<>>
              /\ UNCHANGED <<sessionStartTime, engagementLevel, isSummaryModalVisible>>
    /\ lastOp' = Op("toggleSession", <<>>)
    /\ UNCHANGED <<now, svcVars, aiVars>>

\* toggleSession, followed by the run of the effects that read
\* sessionActive. An effect's function registers a cleanup only through its
\* onCleanup argument; the mode-timer and reminder effects return their
\* clearInterval closures instead, so no interval is ever cleared: a start
\* adds one interval of each kind, a stop removes none. The reminder effect's
\* else branch clears needsEngagementReminder.
\* Variant: a start that leaves the action counters as they were.
toggleSessionKeepingCounters ==
    /\ IF sessionActive
         THEN /\ sessionActive' = FALSE
              /\ Logged("session-end", "session")
              /\ isSummaryModalVisible' = TRUE
              /\ needsEngagementReminder' = FALSE
              /\ UNCHANGED <<sessionStartTime, modeActive, elapsedTime, count,
                             qualitativeNote, engagementLevel, engagementValue,
                             lastEngagementLogTime, aiReportContent, modeTimers,
                             reminderTimers, tickHist>>
         ELSE /\ modeActive' = [m \in Modes |-> FALSE]
              /\ elapsedTime' = [m \in Modes |-> 0]
              /\ qualitativeNote' = ""
              /\ aiReportContent' = ""
              /\ engagementValue' = 50
              /\ lastEngagementLogTime' = NoTime
              /\ needsEngagementReminder' = FALSE
              /\ sessionActive' = TRUE
              /\ sessionStartTime' = now
              /\ LoggedAfresh("session-start", "session")
              /\ modeTimers' = modeTimers + 1
              /\ reminderTimers' = reminderTimers + 1
              /\ tickHist' = <<>>
              /\ UNCHANGED <<count, engagementLevel, isSummaryModalVisible>>
    /\ lastOp' = Op("toggleSession", <<>>)
    /\ UNCHANGED <<now, svcVars, aiVars>>

toggleSession ==
    /\ IF sessionActive
         THEN /\ sessionActive' = FALSE
              /\ Logged("session-end", "session")
              /\ isSummaryModalVisible' = TRUE
              /\ needsEngagementReminder' = FALSE
              /\ UNCHANGED <<sessionStartTime, modeActive, elapsedTime, count,
                             qualitativeNote, engagementLevel, engagementValue,
                             lastEngagementLogTime, aiReportContent, modeTimers,
                             reminderTimers, tickHist>>
         ELSE /\ modeActive' = [m \in Modes |-> FALSE]
              /\ elapsedTime' = [m \in Modes |-> 0]
              /\ count' = [a \in Actions |-> 0]
              /\ qualitativeNote' = ""
              /\ aiReportContent' = ""
              /\ engagementValue' = 50
              /\ lastEngagementLogTime' = NoTime
              /\ needsEngagementReminder' = FALSE
              /\ sessionActive' = TRUE
              /\ sessionStartTime' = now
              /\ LoggedAfresh("session-start", "session")
              /\ modeTimers' = modeTimers + 1
              /\ reminderTimers' = reminderTimers + 1
              /\ tickHist' = <<>>
              /\ UNCHANGED <<engagementLevel, isSummaryModalVisible>>
    /\ lastOp' = Op("toggleSession", <<>>)
    /\ UNCHANGED <<now, svcVars, aiVars>>

\* Variant: the toggle without its `if (!this.sessionActive()) return`.
toggleTeachingModeUnguarded(mode) ==
    /\ modeActive' = [modeActive EXCEPT ![mode] = ~modeActive[mode]]
    /\ Logged(mode \o (IF modeActive'[mode] THEN " on" ELSE " off"), "mode")
    /\ lastOp' = Op("toggleTeachingMode", <<mode>>)
    /\ UNCHANGED <<now, svcVars, sessionActive, sessionStartTime, elapsedTime, count,
                   qualitativeNote, engVars, isSummaryModalVisible, aiReportContent, aiVars,
                   timerVars, tickHist>>

toggleTeachingMode(mode) ==
    /\ IF ~sessionActive
         THEN UNCHANGED <<modeActive, logs, appended>>
         ELSE /\ modeActive' = [modeActive EXCEPT ![mode] = ~modeActive[mode]]
              /\ Logged(mode \o (IF modeActive'[mode] THEN " on" ELSE " off"),
                                "mode")
    /\ lastOp' = Op("toggleTeachingMode", <<mode>>)
    /\ UNCHANGED <<now, svcVars, sessionActive, sessionStartTime, elapsedTime, count,
                   qualitativeNote, engVars, isSummaryModalVisible, aiReportContent, aiVars,
                   timerVars, tickHist>>

recordAction(action) ==
    /\ IF ~sessionActive
         THEN UNCHANGED <<count, logs, appended>>
         ELSE /\ count' = [count EXCEPT ![action] = count[action] + 1]
              /\ Logged("record " \o action, "action")
    /\ lastOp' = Op("recordAction", <<action>>)
    /\ UNCHANGED <<now, svcVars, sessionActive, sessionStartTime, modeVars,
                   qualitativeNote, engVars, isSummaryModalVisible, aiReportContent, aiVars,
                   timerVars, tickHist>>

\* Variant: the thresholds compared with >=.
LevelOfInclusive(value) ==
    IF value >= 66 THEN "high" ELSE IF value >= 33 THEN "medium" ELSE "low"

\* The threshold rule of lines 218-221.
LevelOf(value) ==
    IF value > 66 THEN "high" ELSE IF value > 33 THEN "medium" ELSE "low"

onEngagementChange(str) ==
    /\ IF ~sessionActive
         THEN UNCHANGED <<engVars, logs, appended>>
         ELSE LET value == parseInt(str)
                  level == LevelOf(value)
              IN /\ engagementValue' = value
                 /\ engagementLevel' = level
                 /\ Logged("engagement " \o LevelName(level), "engagement")
                 /\ lastEngagementLogTime' = now
                 /\ needsEngagementReminder' = FALSE
    /\ lastOp' = Op("onEngagementChange", str)
    /\ UNCHANGED <<now, svcVars, sessionActive, sessionStartTime, modeVars, count,
                   qualitativeNote, isSummaryModalVisible, aiReportContent, aiVars,
                   timerVars, tickHist>>

submitQualitativeNote ==
    /\ IF ~sessionActive \/ Trim(qualitativeNote) = ""
         THEN UNCHANGED <<logs, appended, qualitativeNote>>
         ELSE /\ Logged("note " \o qualitativeNote, "note")
              /\ qualitativeNote' = ""
    /\ lastOp' = Op("submitQualitativeNote", <<>>)
    /\ UNCHANGED <<now, svcVars, sessionActive, sessionStartTime, modeVars, count,
                   engVars, isSummaryModalVisible, aiReportContent, aiVars, timerVars,
                   tickHist>>

\* The note field's two-way binding writes the qualitativeNote signal.
editQualitativeNote(text) ==
    /\ qualitativeNote' = text
    /\ lastOp' = Op("editQualitativeNote", <<>>)
    /\ UNCHANGED <<now, svcVars, sessionActive, sessionStartTime, modeVars, count,
                   logs, appended, engVars, isSummaryModalVisible, aiReportContent, aiVars, timerVars,
                   tickHist>>

\* How many sessions have been started: each start makes the mode-timer
\* effect create one interval, and none is ever cleared.
SessionsStarted == modeTimers

\* The call a component handler enters, tagged with the handler awaiting it.
EnteredBy(method, handler) ==
    [Entered(method) EXCEPT !.caller = handler, !.afterStarts = SessionsStarted]

\* polishNote, up to its await: checkApiKey (which shows the missing-key
\* prompt), the empty-note check, the indicator, the call.
polishNote ==
    LET loaded == loadApiKey(apiKey, storedKey, now)
        has == Truthy(loaded.apiKey)
        proceeds == has /\ Trim(qualitativeNote) # ""
    IN
    /\ proceeds => ~InFlight
    /\ apiKey' = loaded.apiKey
    /\ storedKey' = loaded.storedKey
    /\ isApiKeyMissingPromptVisible' = (~has \/ isApiKeyMissingPromptVisible)
    /\ IF proceeds
         THEN /\ isPolishingNote' = TRUE
              /\ call' = EnteredBy("polishText", "polishNote")
              /\ credLog' = Read(credLog, "getApiKey", loaded.apiKey)
         ELSE /\ credLog' = Read(credLog, "hasApiKey", ToString(has))
              /\ UNCHANGED <<isPolishingNote, call>>
    /\ lastOp' = Op("polishNote", <<>>)
    /\ UNCHANGED <<now, processEnv, sessionActive, sessionStartTime, modeVars, count,
                   logs, appended, qualitativeNote, engVars, isSummaryModalVisible,
                   aiReportContent, isLoadingAI, timerVars, tickHist>>

\* generateAiReport, up to its await: checkApiKey, the indicator, the report
\* content emptied, the call.
generateAiReport ==
    LET loaded == loadApiKey(apiKey, storedKey, now)
        has == Truthy(loaded.apiKey)
    IN
    /\ has => ~InFlight
    /\ apiKey' = loaded.apiKey
    /\ storedKey' = loaded.storedKey
    /\ isApiKeyMissingPromptVisible' = (~has \/ isApiKeyMissingPromptVisible)
    /\ IF has
         THEN /\ isLoadingAI' = TRUE
              /\ aiReportContent' = ""
              /\ call' = EnteredBy("generateReport", "generateAiReport")
              /\ credLog' = Read(credLog, "getApiKey", loaded.apiKey)
         ELSE /\ credLog' = Read(credLog, "hasApiKey", ToString(has))
              /\ UNCHANGED <<isLoadingAI, aiReportContent, call>>
    /\ lastOp' = Op("generateAiReport", <<>>)
    /\ UNCHANGED <<now, processEnv, sessionActive, sessionStartTime, modeVars, count,
                   logs, appended, qualitativeNote, engVars, isSummaryModalVisible,
                   isPolishingNote, timerVars, tickHist>>

(* ------------------------------------------------------------------ *)
(* AppComponent: interval callbacks                                   *)
(* ------------------------------------------------------------------ *)

\* Variant: only the first active mode accumulates (modes made exclusive).
modeTickExclusive ==
    LET first == IF \E i \in 1..NumModes : modeActive[ModeIds[i]]
                   THEN ModeIds[CHOOSE i \in 1..NumModes :
                                  /\ modeActive[ModeIds[i]]
                                  /\ \A j \in 1..(i - 1) : ~modeActive[ModeIds[j]]]
                   ELSE ""
    IN
    /\ modeTimers > 0
    /\ elapsedTime' = [m \in Modes |->
                         IF m = first THEN elapsedTime[m] + 1 ELSE elapsedTime[m]]
    /\ tickHist' = Append(tickHist, {m \in Modes : modeActive[m]})
    /\ lastOp' = NoOp
    /\ UNCHANGED <<now, svcVars, sessionActive, sessionStartTime, modeActive, count,
                   logs, appended, qualitativeNote, engVars, isSummaryModalVisible,
                   aiReportContent, aiVars, timerVars>>

\* One firing of a live mode-timer interval (lines 129-135).
modeTick ==
    /\ modeTimers > 0
    /\ elapsedTime' = [m \in Modes |->
                         IF modeActive[m] THEN elapsedTime[m] + 1 ELSE elapsedTime[m]]
    /\ tickHist' = Append(tickHist, {m \in Modes : modeActive[m]})
    /\ lastOp' = NoOp
    /\ UNCHANGED <<now, svcVars, sessionActive, sessionStartTime, modeActive, count,
                   logs, appended, qualitativeNote, engVars, isSummaryModalVisible,
                   aiReportContent, aiVars, timerVars>>

\* lastLogTime || sessionStart || now, on numbers-or-null.
OrElse(a, b) == IF a # NoTime /\ a # 0 THEN a ELSE b

\* Variant: the threshold compared with >=.
reminderCheckInclusive ==
    LET timeSinceLastAction ==
            now - OrElse(lastEngagementLogTime, OrElse(sessionStartTime, now))
    IN
    /\ reminderTimers > 0
    /\ needsEngagementReminder' = (timeSinceLastAction >= 5 * 60 * 1000)
    /\ lastOp' = Op("reminderCheck", <<>>)
    /\ UNCHANGED <<now, svcVars, sessionActive, sessionStartTime, modeVars, count,
                   logs, appended, qualitativeNote, engagementLevel, engagementValue,
                   lastEngagementLogTime, isSummaryModalVisible, aiReportContent, aiVars,
                   timerVars, tickHist>>

\* One firing of a live reminder interval (lines 143-155).
reminderCheck ==
    LET timeSinceLastAction ==
            now - OrElse(lastEngagementLogTime, OrElse(sessionStartTime, now))
    IN
    /\ reminderTimers > 0
    /\ needsEngagementReminder' = (timeSinceLastAction > 5 * 60 * 1000)
    /\ lastOp' = Op("reminderCheck", <<>>)
    /\ UNCHANGED <<now, svcVars, sessionActive, sessionStartTime, modeVars, count,
                   logs, appended, qualitativeNote, engagementLevel, engagementValue,
                   lastEngagementLogTime, isSummaryModalVisible, aiReportContent, aiVars,
                   timerVars, tickHist>>

(* ------------------------------------------------------------------ *)
(* Specifications                                                     *)
(* ------------------------------------------------------------------ *)

Init ==
    /\ now = 1000
    /\ processEnv \in EnvOutcomes
    /\ apiKey = Null
    /\ storedKey = NoItem
    /\ credLog = NeverSet
    /\ call = IdleCall
    /\ lastOp = NoOp
    /\ sessionActive = FALSE
    /\ sessionStartTime = NoTime
    /\ modeActive = [m \in Modes |-> FALSE]
    /\ elapsedTime = [m \in Modes |-> 0]
    /\ count = [a \in Actions |-> 0]
    /\ logs = <<>>
    /\ appended = <<>>
    /\ qualitativeNote = ""
    /\ engagementLevel = "medium"
    /\ engagementValue = 50
    /\ lastEngagementLogTime = NoTime
    /\ needsEngagementReminder = FALSE
    /\ isSummaryModalVisible = FALSE
    /\ aiReportContent = ""
    /\ isLoadingAI = FALSE
    /\ isPolishingNote = FALSE
    /\ isApiKeyMissingPromptVisible = FALSE
    /\ modeTimers = 0
    /\ reminderTimers = 0
    /\ tickHist = <<>>

(* ------------------------------------------------------------------ *)
(* Claims about fetchWithRetry and the credential                     *)
(* ------------------------------------------------------------------ *)

Is500(r) == r # NetworkException /\ r.status = 500
Is400(r) == r # NetworkException /\ r.status = 400
IsMissingField(r) == r # NetworkException /\ r.status = 200 /\ r.text = Undefined
IsText(r) == r # NetworkException /\ r.status = 200 /\ r.text # Undefined

LastMessage(r) == IF r.message = Undefined THEN StatusText(r.status) ELSE r.message

\* Every wait that is over lasted at least the delay asked for.
WaitsRespected ==
    \A i \in 1..Len(call.waited) : call.waited[i] >= call.waits[i]

\* C1: with attempt bound 3, answers 500, 500, 200-with-text make the call
\* return that text after exactly 3 network attempts and waits of 2s then 4s;
\* answers 500, 500, 500 make it throw the last attempt's error after exactly
\* 3 network attempts and the same two waits, with no wait after the last.
C1_RetryBackoff ==
    LET rs == call.responses IN
    /\ (Len(rs) = 3 /\ Is500(rs[1]) /\ Is500(rs[2]) /\ IsText(rs[3]))
          => /\ call.pc = "returned"
             /\ call.result = rs[3].text
             /\ call.fetches = 3
             /\ call.waits = <<2000, 4000>>
             /\ Len(call.waited) = 2 /\ WaitsRespected
    /\ (Len(rs) = 3 /\ Is500(rs[1]) /\ Is500(rs[2]) /\ Is500(rs[3]))
          => /\ call.pc = "threw"
             /\ call.error = ApiError(LastMessage(rs[3]))
             /\ call.fetches = 3
             /\ call.waits = <<2000, 4000>>
             /\ Len(call.waited) = 2 /\ WaitsRespected

C1_Witness ==
    /\ Len(call.responses) = 3
    /\ Is500(call.responses[1]) /\ Is500(call.responses[2])
    /\ IsText(call.responses[3])
    /\ call.pc = "returned"
    /\ call.waited = <<2000, 4000>>

\* C2: a non-success response that is not a retryable 5xx (a 4xx) on any
\* attempt makes the call throw at once with the structured message (or the
\* status text): no further attempt, no backoff wait.
C2_NonRetryableFailsAtOnce ==
    \A i \in 1..Len(call.responses) :
        Is400(call.responses[i])
          => /\ Len(call.responses) = i
             /\ call.pc = "threw"
             /\ call.error = ApiError(LastMessage(call.responses[i]))
             /\ call.fetches = i
             /\ Len(call.waits) = i - 1

\* C3: a 200 response without the text field is handled like a 500: it uses
\* one attempt and is followed by the same backoff wait; three of them make
\* the call throw the parse failure after 3 attempts and waits of 2s and 4s.
C3_MissingFieldRetried ==
    LET rs == call.responses
        n == Len(call.responses)
    IN
    /\ (n > 0 /\ IsMissingField(rs[n]))
          => /\ call.fetches \in {n, n + 1}
             /\ IF n < 3
                  THEN /\ call.pc \in {"backoff", "fetching"}
                       /\ call.pc = "backoff" => call.fetches = n
                       /\ Len(call.waits) = n
                       /\ call.waits[n] = <<2000, 4000>>[n]
                  ELSE /\ call.pc = "threw"
                       /\ call.error = ParseFailure
                       /\ call.fetches = 3
    /\ (n = 3 /\ \A i \in 1..3 : IsMissingField(rs[i]))
          => /\ call.waits = <<2000, 4000>>
             /\ Len(call.waited) = 2 /\ WaitsRespected

C3_Witness ==
    /\ Len(call.responses) = 3
    /\ \A i \in 1..3 : IsMissingField(call.responses[i])
    /\ call.pc = "threw"
    /\ call.waited = <<2000, 4000>>

\* C4: a call that starts when no credential can be resolved throws the
\* missing-credential error at once and makes no network attempt.
C4_MissingCredential ==
    call.absentAtStart
      => /\ call.pc = "threw"
         /\ call.error = MissingCredential
         /\ call.fetches = 0

\* The runs take short steps of the clock only up to MaxDrift past the last
\* long step.
RoomForStep(d, long) == d < long => ((now - 1000) % long) + d <= MaxDrift

NextRetry ==
    \/ \E k \in Keys : setApiKey(k)
    \/ clearApiKey
    \/ polishText
    \/ generateReport
    \/ \E r \in Responses : fetchSettles(r)
    \/ backoffElapsed
    \/ \E d \in TimeSteps : RoomForStep(d, API_KEY_EXPIRATION_MS) /\ advanceTime(d)

SpecRetry == Init /\ [][NextRetry]_vars

(* ------------------------------------------------------------------ *)
(* Claims about the session                                           *)
(* ------------------------------------------------------------------ *)

GuardedHandlers ==
    {"toggleTeachingMode", "recordAction", "onEngagementChange", "submitQualitativeNote"}

\* C5: while the session is inactive, a toggle, increment, setValue or
\* submitNote call changes nothing: no timer's active flag or elapsed
\* seconds, no counter, no engagement value, level or last update time, and
\* no log entry.
C5_InactiveHandlersAreNoOps ==
    [][(~sessionActive /\ lastOp'.op \in GuardedHandlers) => UNCHANGED cmpVars]_vars

\* An inactive session that holds a finished session's data, on which a
\* guarded handler has just been called.
C5_Witness ==
    /\ ~sessionActive
    /\ lastOp.op \in GuardedHandlers
    /\ Len(logs) > 1
    /\ \E m \in Modes : modeActive[m]

TicksWhileActive(m) == Cardinality({i \in 1..Len(tickHist) : m \in tickHist[i]})

\* C6: in an active session each mode timer's elapsed seconds equal the
\* number of ticks fired while it was active since the session's start,
\* whatever other timers were active at those ticks.
C6_ElapsedCountsOwnTicks ==
    sessionActive => \A m \in Modes : elapsedTime[m] = TicksWhileActive(m)

\* A tick fired with several timers active, and timers with different totals.
C6_Witness ==
    /\ sessionActive
    /\ \E i \in 1..Len(tickHist) : Cardinality(tickHist[i]) > 1
    /\ \E m1, m2 \in Modes : elapsedTime[m1] > elapsedTime[m2] /\ elapsedTime[m2] > 0

\* C7: once the session is stopped, until the next start, no timer callback
\* changes any mode timer's elapsed seconds.
C7_NoAccumulationAfterStop ==
    [][(~sessionActive /\ ~sessionActive') => elapsedTime' = elapsedTime]_vars

\* C8 as stated: startTime is set if and only if the session is active.
C8_StartTimeIffActive ==
    (sessionStartTime # NoTime) <=> sessionActive

\* C8, amended: startTime is set whenever the session is active, and a stop
\* leaves it set: once set it is never null again.
C8_StartTimeSetOnceStarted ==
    /\ [](sessionActive => sessionStartTime # NoTime)
    /\ [][sessionStartTime # NoTime => sessionStartTime' # NoTime]_vars

\* A stopped session that still holds its start time.
C8_Witness ==
    /\ ~sessionActive
    /\ sessionStartTime # NoTime
    /\ lastOp.op = "toggleSession"

\* C9: the engagement level always agrees with the value: high above 66,
\* medium above 33, else low; so after a start, value 50 and level medium.
C9_LevelAgreesWithValue ==
    engagementLevel = IF engagementValue > 66 THEN "high"
                      ELSE IF engagementValue > 33 THEN "medium" ELSE "low"

\* C10: in an active session setValue(v), v in 0..100, sets the level to low
\* for 0..33, medium for 34..66, high for 67..100, sets lastUpdateTime to now
\* and appends exactly one engagement log entry.
C10_SetValue ==
    [][(sessionActive /\ lastOp'.op = "onEngagementChange")
         => \E v \in 0..100 :
              /\ lastOp'.arg = ToDecimal(v)
              /\ engagementValue' = v
              /\ engagementLevel' = (IF v <= 33 THEN "low"
                                     ELSE IF v <= 66 THEN "medium" ELSE "high")
              /\ lastEngagementLogTime' = now
              /\ Len(logs') = Len(logs) + 1
              /\ Tail(logs') = logs
              /\ Head(logs').type = "engagement"
              /\ Head(logs').timestamp = now]_vars

\* The slider moved to 34 some time after the start.
C10_Witness ==
    /\ sessionActive
    /\ lastOp = Op("onEngagementChange", <<"3", "4">>)
    /\ engagementLevel = "medium"
    /\ lastEngagementLogTime = now
    /\ now > sessionStartTime
    /\ Len(logs) = 2 /\ logs[1].type = "engagement"

\* The session's handlers and the clock. A session takes at most MaxLog
\* logging calls, and at most MaxSessions sessions are started.
RoomToLog == sessionActive => Len(logs) <= MaxLog
RoomToStart == sessionActive \/ modeTimers < MaxSessions

NextSession ==
    \/ RoomToStart /\ toggleSession
    \/ RoomToLog /\ \E m \in Modes : toggleTeachingMode(m)
    \/ RoomToLog /\ \E a \in Actions : recordAction(a)
    \/ RoomToLog /\ \E v \in SliderStops : onEngagementChange(ToDecimal(v))
    \/ RoomToLog /\ submitQualitativeNote
    \/ \E n \in Notes : editQualitativeNote(n)
    \/ advanceTime(API_KEY_EXPIRATION_MS)

\* The session never reads the credential: its runs fix the build's process.env.
InitSession == Init /\ processEnv = ReferenceError

SpecSession == InitSession /\ [][NextSession]_vars

\* The session and its interval callbacks: at most MaxTicks firings of the
\* mode-timer intervals per session.
NextTimers ==
    \/ RoomToStart /\ toggleSession
    \/ RoomToLog /\ \E m \in Modes : toggleTeachingMode(m)
    \/ Len(tickHist) < MaxTicks /\ modeTick
    \/ reminderCheck
    \/ advanceTime(API_KEY_EXPIRATION_MS)

SpecTimers == InitSession /\ [][NextTimers]_vars

\* The engagement slider over its whole scale, in active sessions.
NextEngagement ==
    \/ RoomToStart /\ toggleSession
    \/ sessionActive /\ RoomToLog
         /\ \E v \in SliderScale : onEngagementChange(ToDecimal(v))
    \/ advanceTime(API_KEY_EXPIRATION_MS)

SpecEngagement == InitSession /\ [][NextEngagement]_vars

(* ------------------------------------------------------------------ *)
(* Claims about the idle reminder                                     *)
(* ------------------------------------------------------------------ *)

\* The time the reminder is measured from, as C11 states it.
ReferenceTime ==
    IF lastEngagementLogTime # NoTime THEN lastEngagementLogTime ELSE sessionStartTime

\* C11: in an active session a reminder poll sets reminderDue to whether
\* strictly more than 5 minutes have passed since lastUpdateTime if set, else
\* since the session start (false at T0+299s, true at T0+301s); a setValue
\* call sets it false at once, and polls keep it false until more than 5
\* minutes after that setValue.
C11_ReminderStateMachine ==
    /\ (sessionActive /\ lastOp.op = "reminderCheck")
         => /\ needsEngagementReminder = (now - ReferenceTime > 300000)
            /\ now - ReferenceTime <= 299000 => ~needsEngagementReminder
            /\ now - ReferenceTime >= 301000 => needsEngagementReminder
    /\ (sessionActive /\ lastOp.op = "onEngagementChange") => ~needsEngagementReminder

\* A poll 301 s after a setValue that had cleared a due reminder.
C11_Witness ==
    /\ sessionActive
    /\ lastOp.op = "reminderCheck"
    /\ lastEngagementLogTime - sessionStartTime >= 301000
    /\ now - lastEngagementLogTime = 301000
    /\ needsEngagementReminder

\* The session, the slider and the reminder poll, on a clock that steps by
\* ReminderSteps up to MaxIdle.
NextReminder ==
    \/ RoomToStart /\ toggleSession
    \/ RoomToLog /\ onEngagementChange(ToDecimal(67))
    \/ reminderCheck
    \/ \E d \in ReminderSteps :
         now + d <= MaxIdle /\ RoomForStep(d, IdleStep) /\ advanceTime(d)

SpecReminder == InitSession /\ [][NextReminder]_vars

(* ------------------------------------------------------------------ *)
(* Claims about the ledger                                            *)
(* ------------------------------------------------------------------ *)

\* C12: the ledger never holds more than 100 entries and is stored most
\* recent first; after n appends since it was last cleared it holds exactly
\* the min(n, 100) most recently appended entries in reverse append order.
C12_LedgerCap ==
    LET n == Len(appended)
        k == Min(n, 100)
    IN /\ Len(logs) <= 100
       /\ Len(logs) = k
       /\ \A i \in 1..k : logs[i] = appended[n - i + 1]
       /\ \A i \in 1..(k - 1) : logs[i].timestamp >= logs[i + 1].timestamp

\* 150 appends, each at its own millisecond: the 100 latest are kept.
C12_Witness ==
    /\ Len(appended) = 150
    /\ Len(logs) = 100
    /\ logs[1] = appended[150]
    /\ logs[100] = appended[51]
    /\ logs[100].timestamp > appended[50].timestamp

\* One long session: an action recorded at each millisecond, up to MaxAppends
\* appends; a stop at any point; a new start on an empty or a filled ledger.
Newest == appended[Len(appended)]

NextLedger ==
    \/ /\ ~sessionActive
       /\ RoomToStart
       /\ appended = <<>> \/ Len(appended) >= MaxAppends
       /\ toggleSession
    \/ sessionActive /\ toggleSession
    \/ /\ sessionActive
       /\ Len(appended) < MaxAppends
       /\ Newest.timestamp < now
       /\ recordAction(ActionIds[1])
    \/ /\ sessionActive
       /\ Newest.timestamp = now
       /\ advanceTime(1)

SpecLedger == InitSession /\ [][NextLedger]_vars

(* ------------------------------------------------------------------ *)
(* Claims about the credential's lifetime                             *)
(* ------------------------------------------------------------------ *)

\* The credential last set, while it is younger than two hours and has not
\* been cleared.
StoredCredential ==
    IF credLog.set # Null /\ now - credLog.at < API_KEY_EXPIRATION_MS
      THEN credLog.set
      ELSE Null

Discarded == apiKey = Null /\ storedKey = NoItem

TextResponse == [status |-> 200, text |-> "T", message |-> Undefined]

NextCredential ==
    \/ \E k \in Keys : setApiKey(k)
    \/ clearApiKey
    \/ hasApiKey
    \/ polishText
    \/ fetchSettles(TextResponse)
    \/ \E d \in TimeSteps : RoomForStep(d, API_KEY_EXPIRATION_MS) /\ advanceTime(d)

SpecCredential == Init /\ [][NextCredential]_vars

(* ------------------------------------------------------------------ *)
(* Calls under fair scheduling                                        *)
(* ------------------------------------------------------------------ *)

\* The longest a call can spend in backoff: 2 s, then 4 s.
WorstBackoff == BackoffDelay(1) + BackoffDelay(2)

\* A call is entered only where the clock has room for all its backoff.
RoomForCall == ((now - 1000) % API_KEY_EXPIRATION_MS) + WorstBackoff <= MaxDrift

BackoffDue == call.caughtAt + call.waits[Len(call.waits)]

\* Time passes while a call waits for its backoff timeout.
Waiting ==
    /\ call.pc = "backoff"
    /\ now < BackoffDue
    /\ advanceTime(2000)

NextCalls ==
    \/ setApiKey("k1")
    \/ RoomForCall /\ polishText
    \/ RoomForCall /\ generateReport
    \/ RoomForCall /\ polishNote
    \/ RoomForCall /\ generateAiReport
    \/ editQualitativeNote("note")
    \/ \E r \in Responses : fetchSettles(r)
    \/ backoffElapsed
    \/ Waiting
    \/ ~InFlight /\ advanceTime(API_KEY_EXPIRATION_MS)

\* Every request is answered or fails, timeouts fire, and time passes.
FairCalls ==
    /\ WF_vars(\E r \in Responses : fetchSettles(r))
    /\ WF_vars(backoffElapsed)
    /\ WF_vars(Waiting)

SpecCalls == InitSession /\ [][NextCalls]_vars /\ FairCalls

RECURSIVE SumSeq(_)
SumSeq(q) == IF q = <<>> THEN 0 ELSE q[1] + SumSeq(Tail(q))

Ended == call.pc \in {"returned", "threw"}

\* C14: whatever the endpoint answers, a call ends, returning the text or
\* throwing, after at most 3 network attempts; it never has two requests
\* outstanding, and its backoff delays add up to at most 6 s.
C14_CallTerminates ==
    /\ [](/\ call.fetches <= maxRetries
          /\ Len(call.responses) + call.pending = call.fetches
          /\ call.pending <= 1
          /\ SumSeq(call.waits) <= 6000
          /\ SumSeq(call.waits) <= WorstBackoff
          /\ Ended => call.pending = 0
          /\ call.pc = "returned" => call.result = "T" /\ call.error = NoError
          /\ call.pc = "threw" => call.error # NoError /\ call.result = Undefined)
    /\ (InFlight ~> Ended)

\* A call that used all three attempts and both delays, and then threw.
C14_Witness ==
    /\ call.pc = "threw"
    /\ call.fetches = 3
    /\ call.waits = <<2000, 4000>>
    /\ call.responses = <<NetworkException,
                          [status |-> 200, text |-> Undefined, message |-> Undefined],
                          [status |-> 400, text |-> Undefined, message |-> "M"]>>

\* C15: a call resolves the credential once, before its first attempt, and
\* every attempt uses that value; setting or clearing the key, or time passing
\* (its expiry), while the call is in flight leaves the call as it is.
C15_KeyResolvedOnce ==
    /\ [](call.pc # "idle"
            => /\ call.resolutions = 1
               /\ Len(call.keysUsed) = call.fetches
               /\ \A i \in 1..Len(call.keysUsed) : call.keysUsed[i] = call.apiKey)
    /\ [][(InFlight /\ (apiKey' # apiKey \/ storedKey' # storedKey \/ now' # now))
            => (call' = call /\ InFlight')]_vars

\* A third attempt made with the key resolved at the start, two hours and
\* more after it was set and after another key was set.
C15_Witness ==
    /\ call.pc = "fetching"
    /\ call.keysUsed = <<"k1", "k1", "k1">>
    /\ apiKey = "k2"
    /\ now - storedKey.timestamp >= API_KEY_EXPIRATION_MS

(* ------------------------------------------------------------------ *)
(* Claims about stopping and restarting                               *)
(* ------------------------------------------------------------------ *)

\* C16: while the session is inactive the reminder is not due: no firing of
\* the reminder poll after a stop sets it.
C16_NoReminderWhileInactive ==
    ~sessionActive => ~needsEngagementReminder

\* C17: at most one mode-timer interval and one reminder interval are live,
\* and none while the session is inactive.
C17_TimerLifecycle ==
    /\ modeTimers <= 1
    /\ reminderTimers <= 1
    /\ ~sessionActive => (modeTimers = 0 /\ reminderTimers = 0)

JustStarted == sessionActive /\ lastOp = Op("toggleSession", <<>>)

\* C18: right after a start, whatever the earlier sessions did, every mode is
\* inactive with 0 elapsed seconds, every action counter is 0, the last
\* engagement update time is null, the reminder is not due, and the ledger
\* holds the session-start entry alone.
C18_StartResets ==
    JustStarted
      => /\ \A m \in Modes : ~modeActive[m] /\ elapsedTime[m] = 0
         /\ \A a \in Actions : count[a] = 0
         /\ lastEngagementLogTime = NoTime
         /\ ~needsEngagementReminder
         /\ logs = <<[timestamp |-> now, message |-> "session-start",
                      type |-> "session"]>>

\* A second start, two hours and more after the first, after a session in
\* which the engagement level was moved to high.
C18_Witness ==
    /\ JustStarted
    /\ SessionsStarted = 2
    /\ sessionStartTime > API_KEY_EXPIRATION_MS
    /\ engagementLevel = "high"

NextRestart ==
    \/ RoomToStart /\ toggleSession
    \/ RoomToLog /\ toggleTeachingMode(ModeIds[1])
    \/ RoomToLog /\ recordAction(ActionIds[1])
    \/ RoomToLog /\ onEngagementChange(ToDecimal(67))
    \/ Len(tickHist) < MaxTicks /\ modeTick
    \/ reminderCheck
    \/ advanceTime(API_KEY_EXPIRATION_MS)

SpecRestart == InitSession /\ [][NextRestart]_vars

(* ------------------------------------------------------------------ *)
(* Claims about the component's calls                                 *)
(* ------------------------------------------------------------------ *)

AwaitedBy(handler) == call.caller = handler

\* C19: a call entered by generateAiReport (polishNote) with its indicator
\* set ends, and ends with the indicator reset, whether it returned text or
\* threw; when generateAiReport's call threw, the report content is the
\* fallback message.
C19_IndicatorReset ==
    /\ isLoadingAI ~> ~isLoadingAI
    /\ isPolishingNote ~> ~isPolishingNote
    /\ [](/\ isLoadingAI <=> (InFlight /\ AwaitedBy("generateAiReport"))
          /\ isPolishingNote <=> (InFlight /\ AwaitedBy("polishNote"))
          /\ (AwaitedBy("generateAiReport") /\ call.pc = "threw")
               => aiReportContent = ReportFailed
          /\ (AwaitedBy("generateAiReport") /\ call.pc = "returned")
               => aiReportContent = call.result)

\* generateAiReport's call threw on its third attempt: fallback shown,
\* indicator reset.
C19_Witness ==
    /\ AwaitedBy("generateAiReport")
    /\ call.pc = "threw"
    /\ call.fetches = maxRetries
    /\ call.error = ApiError("M")
    /\ aiReportContent = ReportFailed
    /\ ~isLoadingAI

\* C20: once a start has emptied the report content, it stays empty until
\* generateAiReport is invoked again, also when a call entered before that
\* start ends after it.
C20_ReportOfItsSession ==
    (AwaitedBy("generateAiReport") /\ call.afterStarts < SessionsStarted)
      => aiReportContent = ""

NextReport ==
    \/ setApiKey("k1")
    \/ RoomToStart /\ toggleSession
    \/ RoomForCall /\ generateAiReport
    \/ \E r \in Responses : fetchSettles(r)
    \/ backoffElapsed
    \/ Waiting

SpecReport == InitSession /\ [][NextReport]_vars

====
